---- MODULE Spec2Model ----
(***************************************************************************)
(* Model of the x265 encoder plugin of libheif (heif_encoder_x265.cc).     *)
(*                                                                         *)
(* The plugin object (x265_encoder_struct) holds a parameter handle, an    *)
(* encoder instance handle, the pointer and count of the most recent batch *)
(* of NAL units the x265 library wrote, and a read cursor.  The wrapped    *)
(* library is the environment: its handles are instance numbers, the NAL   *)
(* batches it will hand out are drawn when an instance is opened, and      *)
(* x265_encoder_encode follows the contract of x265.h (a batch and its     *)
(* count are written when the result is > 0, the count is set to 0 when    *)
(* the result is <= 0, nothing is written for a null instance).            *)
(***************************************************************************)
EXTENDS Integers, Sequences, FiniteSets

\* ---------------------------------------------------------------- bounds

\* calls of x265_encode_image on one plugin object
MaxEncodes == 2
\* batches an encoder instance still holds back after the encode call
MaxFlush == 1
\* how far outside 0..100 the quality argument is drawn
QualityMargin == 3
\* bytes in a NAL payload of the payload sweep
MaxLen == 5
\* end markers the caller reads after one x265_encode_image before it stops asking
MaxEnds == 2

\* ------------------------------------------------------- program constants

heif_error_Ok == "heif_error_Ok"
\* x265.h: X265_LOG_NONE
X265_LOG_NONE == -1
\* rc.rfConstant after x265_param_default_preset
DefaultRfConstant == 28
\* nal_unit_type 39 (prefix SEI) << 1: first byte of the NAL header
SEI_HEADER_BYTE == 78
\* SEI payload type: user_data_unregistered
SEI_USER_DATA_UNREGISTERED == 5

\* ------------------------------------------------------------- NAL payloads

\* prefix SEI NAL with unregistered user data, behind a 3-byte start code
SeiNal == <<0, 0, 1, 78, 1, 5>>
\* coded slice NAL behind a 4-byte start code
SliceNal == <<0, 0, 0, 1, 38, 1, 5>>
\* a payload consisting only of zero bytes
ZeroNal == <<0, 0>>

RECURSIVE SeqsUpTo(_, _)
SeqsUpTo(S, n) ==
  IF n = 0 THEN {<<>>}
  ELSE LET shorter == SeqsUpTo(S, n - 1)
       IN shorter \cup {Append(s, x) : s \in {t \in shorter : Len(t) = n - 1}, x \in S}

\* the batches an encoder instance writes with a result > 0
Batches == {<<SliceNal>>, <<SeiNal, SliceNal>>, <<ZeroNal, SeiNal>>}

Answer(result, units) == [result |-> result, units |-> units]

\* what x265_encoder_encode can answer to a flush call while pictures are
\* delayed, and to the encode call (0: the pipeline is still filling, -1: error)
FlushResponses == {Answer(1, b) : b \in Batches}
Responses == {Answer(0, <<>>), Answer(-1, <<>>)} \cup FlushResponses

VARIABLES
  phase,               \* "none", "live" (after x265_new_encoder), "freed"
  params,              \* the x265_param the object owns
  encoder,             \* x265_encoder*: instance number, 0 = nullptr
  nals,                \* x265_nal*: [owner, units], owner 0 = nullptr
  num_nals,
  nal_output_counter,
  closeCount,          \* library: per opened instance, calls of x265_encoder_close
  paramFrees,          \* library: calls of x265_param_free
  pending,             \* library: answers the open instance gives to later encode calls
  libCalls,            \* library: calls of x265_encoder_encode
  err, data, size,     \* heif_error returned, *data and *size of the caller
  quality,             \* argument of the last x265_set_param_quality
  encodeCalls,         \* calls of x265_encode_image
  produced,            \* NALs written by the open instance with result > 0, in order
  delivered,           \* NALs handed out since the last x265_encode_image
  scanned,             \* NALs the cursor passed in the last x265_get_compressed_data
  oobRead,             \* the last x265_get_compressed_data read past a payload's end
  ended                \* end markers returned since the last x265_encode_image

vars == <<phase, params, encoder, nals, num_nals, nal_output_counter, closeCount,
          paramFrees, pending, libCalls, err, data, size,
          quality, encodeCalls, produced, delivered, scanned, oobRead, ended>>

objVars == <<encoder, nals, num_nals, nal_output_counter>>
libVars == <<closeCount, paramFrees, pending, libCalls>>
histVars == <<encodeCalls, produced, delivered, scanned, oobRead, ended>>

NullPtr == [owner |-> 0, idx |-> 0, off |-> 0]
\* *data of a caller that has not called x265_get_compressed_data yet
UnsetPtr == [owner |-> -1, idx |-> 0, off |-> 0]
NullNals == [owner |-> 0, units |-> <<>>]

Init ==
  /\ phase = "none"
  /\ params = [rfConstant |-> 0, bLossless |-> 0, logLevel |-> 0,
               sourceWidth |-> 0, sourceHeight |-> 0, fpsNum |-> 0, fpsDenom |-> 0]
  /\ encoder = 0
  /\ nals = NullNals
  /\ num_nals = 0
  /\ nal_output_counter = 0
  /\ closeCount = <<>>
  /\ paramFrees = 0
  /\ pending = <<>>
  /\ libCalls = 0
  /\ err = "none"
  /\ data = UnsetPtr
  /\ size = -1
  \* no quality has been set: a value no call passes
  /\ quality = 0 - 1 - QualityMargin
  /\ encodeCalls = 0
  /\ produced = <<>>
  /\ delivered = <<>>
  /\ scanned = <<>>
  /\ oobRead = FALSE
  /\ ended = 0

\* ------------------------------------------------------------ new / free

x265_new_encoder ==
  /\ phase = "none"
  /\ phase' = "live"
  /\ params' = [rfConstant |-> DefaultRfConstant, bLossless |-> 0,
                logLevel |-> X265_LOG_NONE, sourceWidth |-> 0, sourceHeight |-> 0,
                fpsNum |-> 1, fpsDenom |-> 1]
  /\ encoder' = 0
  /\ nals' = NullNals
  /\ num_nals' = 0
  /\ nal_output_counter' = 0
  /\ err' = heif_error_Ok
  /\ UNCHANGED <<libVars, data, size, quality, histVars>>

\* if (encoder->encoder) x265_encoder_close(encoder->encoder);
CloseIfOpenLeak(cc, enc) == cc
CloseIfOpen(cc, enc) ==
  IF enc # 0 THEN [cc EXCEPT ![enc] = @ + 1] ELSE cc

x265_free_encoder ==
  /\ phase = "live"
  /\ phase' = "freed"
  /\ paramFrees' = paramFrees + 1
  /\ closeCount' = CloseIfOpen(closeCount, encoder)
  /\ pending' = <<>>
  /\ UNCHANGED <<params, objVars, libCalls, err, data, size, quality,
                 histVars>>

\* ------------------------------------------------------------- parameters

\* C integer division by a positive divisor: truncates toward zero
CDiv(a, b) == IF a >= 0 THEN a \div b ELSE 0 - ((0 - a) \div b)

\* encoder->params->rc.rfConstant = (100-quality)/2;
CrfRoundUp(q) == CDiv(100 - q + 1, 2)
Crf(q) == CDiv(100 - q, 2)

x265_set_param_quality(q) ==
  /\ phase = "live"
  /\ params' = [params EXCEPT !.rfConstant = Crf(q)]
  /\ quality' = q
  /\ err' = heif_error_Ok
  /\ UNCHANGED <<phase, objVars, libVars, data, size, histVars>>

x265_set_param_lossless(enable) ==
  /\ phase = "live"
  /\ params' = [params EXCEPT !.bLossless = enable]
  /\ err' = heif_error_Ok
  /\ UNCHANGED <<phase, objVars, libVars, data, size, quality, histVars>>

\* if (logging<0) logging=0;  if (logging>4) logging=4;
ClampLogging(logging) ==
  LET l0 == IF logging < 0 THEN 0 ELSE logging
  IN IF l0 > 4 THEN 4 ELSE l0

x265_set_param_logging_level(logging) ==
  /\ phase = "live"
  /\ params' = [params EXCEPT !.logLevel = ClampLogging(logging)]
  /\ err' = heif_error_Ok
  /\ UNCHANGED <<phase, objVars, libVars, data, size, quality, histVars>>

\* ------------------------------------------------------ the wrapped encoder

\* x265_encoder_encode(enc, &nals, &num_nals, pic, NULL): the answer of instance
\* enc with the answers pend still to give, written over the object's batch
\* pointer curNals and count curNum.  A null instance answers -1 and writes
\* nothing; an instance with nothing left answers 0; a result <= 0 sets the
\* count to 0 and leaves the batch pointer alone.
LibEncode(enc, pend, curNals, curNum) ==
  IF enc = 0
    THEN [result |-> -1, nals |-> curNals, num_nals |-> curNum, pending |-> pend]
  ELSE IF pend = <<>>
    THEN [result |-> 0, nals |-> curNals, num_nals |-> 0, pending |-> pend]
  ELSE IF Head(pend).result > 0
    THEN [result |-> Head(pend).result,
          nals |-> [owner |-> enc, units |-> Head(pend).units],
          num_nals |-> Len(Head(pend).units),
          pending |-> Tail(pend)]
  ELSE [result |-> Head(pend).result, nals |-> curNals, num_nals |-> 0,
        pending |-> Tail(pend)]

\* heif_image_get_width(image, heif_channel_Y) & ~1, for a width >= 0
ClearBit0(n) == n - (n % 2)

\* ------------------------------------------------------------ encode_image

\* openOk: x265_encoder_open returns an instance (else nullptr);
\* resp, pend: what the new instance answers to the encode call and to the
\* flush calls after it.
\* (void)result; ... return { heif_error_Ok, ... }
EncodeErrorOnFailure(result) ==
  IF result <= 0 THEN "heif_error_Encoder_plugin_error" ELSE heif_error_Ok
EncodeError(result) == heif_error_Ok

x265_encode_image(width, height, openOk, resp, pend) ==
  /\ phase = "live"
  /\ encodeCalls < MaxEncodes
  /\ LET closed == CloseIfOpen(closeCount, encoder)
         enc == IF openOk THEN Len(closed) + 1 ELSE 0
         opened == IF openOk THEN Append(closed, 0) ELSE closed
         r == LibEncode(enc, IF openOk THEN <<resp>> \o pend ELSE <<>>, nals, num_nals)
     IN /\ params' = [params EXCEPT !.sourceWidth = ClearBit0(width),
                                    !.sourceHeight = ClearBit0(height)]
        /\ closeCount' = opened
        /\ encoder' = enc
        /\ nals' = r.nals
        /\ num_nals' = r.num_nals
        /\ pending' = r.pending
        /\ produced' = IF r.result > 0 THEN r.nals.units ELSE <<>>
        /\ err' = EncodeError(r.result)
  /\ libCalls' = libCalls + 1
  /\ nal_output_counter' = 0
  /\ encodeCalls' = encodeCalls + 1
  /\ delivered' = <<>>
  /\ scanned' = <<>>
  /\ oobRead' = FALSE
  /\ ended' = 0
  \* the caller reads the new picture's data into fresh variables
  /\ data' = UnsetPtr
  /\ size' = -1
  /\ UNCHANGED <<phase, paramFrees, quality>>

\* ------------------------------------------------------ get_compressed_data

\* while (**data==0 && *size>0) { (*data)++; (*size)--; }
\* off bytes are skipped and sz are left.  With sz = 0 the byte tested lies
\* behind the payload; whatever it holds, the test fails on *size>0.
RECURSIVE SkipZeros(_, _, _)
SkipZeros(p, off, sz) ==
  IF sz > 0 /\ p[off + 1] = 0
    THEN SkipZeros(p, off + 1, sz - 1)
    ELSE [off |-> off, size |-> sz]

\* skip '0' bytes, then skip '1' byte: *data = payload + off, *size = size;
\* oob: the loop test read payload[sizeBytes]
StripStartCode(p) ==
  LET z == SkipZeros(p, 0, Len(p))
  IN [off |-> z.off + 1, size |-> z.size - 1, oob |-> (z.off >= Len(p))]

\* if (*size >= 3 && (*data)[0]==0x4e && (*data)[2]==5)
IsUserDataSEIWrongByte(p, off, sz) ==
  /\ sz >= 3
  /\ p[off + 1] = SEI_HEADER_BYTE
  /\ p[off + 2] = SEI_USER_DATA_UNREGISTERED
IsUserDataSEI(p, off, sz) ==
  /\ sz >= 3
  /\ p[off + 1] = SEI_HEADER_BYTE
  /\ p[off + 3] = SEI_USER_DATA_UNREGISTERED

\* encoder->encoder == nullptr: *data = nullptr; *size = 0; return Ok
EarlyEndKeepsSize(s) ==
  [s EXCEPT !.data = NullPtr, !.err = heif_error_Ok, !.ended = @ + 1]
EarlyEnd(s) ==
  [s EXCEPT !.data = NullPtr, !.size = 0, !.err = heif_error_Ok, !.ended = @ + 1]

\* result <= 0: *data = nullptr; *size = 0; return Ok
FlushEnd(s, result) ==
  [s EXCEPT !.data = NullPtr, !.size = 0, !.err = heif_error_Ok, !.ended = @ + 1]

\* the for (;;) loop: hand out the next NAL of the batch that is no
\* unregistered-user-data SEI; with the batch used up, ask the encoder for
\* the next one and go on from the cursor as it stands
RECURSIVE GetLoop(_)
GetLoop(s) ==
  IF s.nal_output_counter < s.num_nals
    THEN LET p == s.nals.units[s.nal_output_counter + 1]
             st == StripStartCode(p)
             s1 == [s EXCEPT !.nal_output_counter = @ + 1,
                             !.data = [owner |-> s.nals.owner,
                                       idx |-> s.nal_output_counter + 1,
                                       off |-> st.off],
                             !.size = st.size,
                             !.scanned = Append(@, p),
                             !.oobRead = @ \/ st.oob]
         IN IF IsUserDataSEI(p, st.off, st.size)
              THEN GetLoop(s1)
              ELSE [s1 EXCEPT !.err = heif_error_Ok, !.delivered = Append(@, p)]
    ELSE LET r == LibEncode(s.encoder, s.pending, s.nals, s.num_nals)
             s2 == [s EXCEPT !.nals = r.nals,
                             !.num_nals = r.num_nals,
                             !.pending = r.pending,
                             !.libCalls = @ + 1,
                             !.produced = IF r.result > 0 THEN @ \o r.nals.units ELSE @]
         IN IF r.result <= 0 THEN FlushEnd(s2, r.result) ELSE GetLoop(s2)

GetCompressedNoNullCheck(s) == GetLoop(s)
GetCompressed(s) ==
  IF s.encoder = 0 THEN EarlyEnd(s) ELSE GetLoop(s)

x265_get_compressed_data ==
  /\ phase = "live"
  /\ ended < MaxEnds
  /\ LET r == GetCompressed(
              [encoder |-> encoder, nals |-> nals, num_nals |-> num_nals,
               nal_output_counter |-> nal_output_counter, pending |-> pending,
               libCalls |-> libCalls,
               err |-> err, data |-> data, size |-> size,
               produced |-> produced, delivered |-> delivered,
               scanned |-> <<>>, oobRead |-> FALSE, ended |-> ended])
     IN /\ nals' = r.nals
        /\ num_nals' = r.num_nals
        /\ nal_output_counter' = r.nal_output_counter
        /\ pending' = r.pending
        /\ libCalls' = r.libCalls
        /\ err' = r.err
        /\ data' = r.data
        /\ size' = r.size
        /\ produced' = r.produced
        /\ delivered' = r.delivered
        /\ scanned' = r.scanned
        /\ oobRead' = r.oobRead
        /\ ended' = r.ended
  /\ UNCHANGED <<phase, params, encoder, closeCount, paramFrees, quality, encodeCalls>>

\* ---------------------------------------------------------- specifications

Next ==
  \/ x265_new_encoder
  \/ x265_free_encoder
  \/ x265_set_param_quality(50)
  \/ x265_set_param_lossless(1)
  \/ x265_set_param_logging_level(7)
  \/ \E resp \in Responses, pend \in SeqsUpTo(FlushResponses, MaxFlush) :
       x265_encode_image(5, 4, TRUE, resp, pend)
  \/ x265_encode_image(1, 1, FALSE, Answer(0, <<>>), <<>>)
  \/ x265_get_compressed_data

Spec == Init /\ [][Next]_vars

\* Parameter sweep: every quality in and around 0..100, on an object that is
\* also encoding.
Qualities == (0 - QualityMargin) .. (100 + QualityMargin)

NextQuality ==
  \/ x265_new_encoder
  \/ \E q \in Qualities : x265_set_param_quality(q)
  \/ \E enable \in {0, 1} : x265_set_param_lossless(enable)
  \/ \E logging \in {-1, 2, 9} : x265_set_param_logging_level(logging)
  \/ x265_encode_image(5, 4, TRUE, Answer(1, <<SeiNal, SliceNal>>), <<>>)
  \/ x265_get_compressed_data

SpecQuality == Init /\ [][NextQuality]_vars

\* Payload sweep: the object right after x265_new_encoder and one
\* x265_encode_image whose batch holds any payload over Bytes of up to MaxLen
\* bytes, followed by a slice NAL, with at most one batch held back.
Bytes == {0, 1, SEI_USER_DATA_UNREGISTERED, SEI_HEADER_BYTE}

InitNal ==
  /\ phase = "live"
  /\ params = [rfConstant |-> DefaultRfConstant, bLossless |-> 0,
               logLevel |-> X265_LOG_NONE, sourceWidth |-> 4, sourceHeight |-> 4,
               fpsNum |-> 1, fpsDenom |-> 1]
  /\ encoder = 1
  /\ \E p \in SeqsUpTo(Bytes, MaxLen) : nals = [owner |-> 1, units |-> <<p, SliceNal>>]
  /\ num_nals = 2
  /\ nal_output_counter = 0
  /\ closeCount = <<0>>
  /\ paramFrees = 0
  /\ pending \in {<<>>, <<Answer(1, <<SeiNal, SeiNal, SliceNal>>)>>}
  /\ libCalls = 1
  /\ err = heif_error_Ok
  /\ data = UnsetPtr
  /\ size = -1
  /\ quality = 0 - 1 - QualityMargin
  /\ encodeCalls = 1
  /\ produced = nals.units
  /\ delivered = <<>>
  /\ scanned = <<>>
  /\ oobRead = FALSE
  /\ ended = 0

NextNal == x265_get_compressed_data

SpecNal == InitNal /\ [][NextNal]_vars

\* ------------------------------------------------------------------ claims

\* The claims speak of a payload "after start-code stripping": the payload
\* without its leading zero bytes and the byte after them.
LeadingZeros(p) ==
  CHOOSE k \in 0 .. Len(p) :
    /\ \A i \in 1 .. k : p[i] = 0
    /\ k = Len(p) \/ p[k + 1] # 0

Stripped(p) == SubSeq(p, LeadingZeros(p) + 2, Len(p))

UserDataSei(p) ==
  /\ Len(Stripped(p)) >= 3
  /\ Stripped(p)[1] = 78
  /\ Stripped(p)[3] = 5

HandedOut == data # NullPtr /\ data # UnsetPtr

\* C1: every operation that returns a heif_error returns heif_error_Ok, whatever
\* the arguments, the earlier operations and the results of the wrapped encoder.
C1_AlwaysOk == phase # "none" => err = heif_error_Ok

\* an encode call answered <= 0, then data pulled to the end marker
C1_Witness ==
  /\ encodeCalls > 0
  /\ encoder # 0
  /\ produced = <<>>
  /\ ended > 0
  /\ err = heif_error_Ok

\* C2: of the NALs the cursor passes in one x265_get_compressed_data, those that
\* are unregistered-user-data SEIs (>= 3 bytes after start-code stripping, first
\* 0x4e, third 5) are not handed out, and one that is not is handed out: it is the
\* last one passed and *data points into it.
C2_SeiFiltered ==
  /\ \A i \in 1 .. Len(scanned) :
       UserDataSei(scanned[i]) <=> ~(i = Len(scanned) /\ HandedOut)
  /\ (HandedOut /\ phase = "live") =>
       /\ scanned # <<>>
       /\ data.idx \in 1 .. Len(nals.units)
       /\ nals.units[data.idx] = scanned[Len(scanned)]
       /\ ~UserDataSei(nals.units[data.idx])

\* a SEI was passed over and the NAL after it handed out
C2_Witness ==
  /\ Len(scanned) >= 2
  /\ UserDataSei(scanned[1])
  /\ HandedOut

\* C3: when the first end marker after an x265_encode_image is returned, the NALs
\* handed out are exactly the NALs the encoder wrote with a result > 0, in order,
\* without the unregistered-user-data SEIs.
C3_AllDelivered ==
  (encodeCalls > 0 /\ ended = 1) =>
    delivered = SelectSeq(produced, LAMBDA p : ~UserDataSei(p))

\* C4: the read cursor never lies behind the end of the most recent batch.
C4_CursorInBatch == nal_output_counter <= num_nals

\* C5: at most one encoder instance is open and it is the one the object holds;
\* no instance is closed twice; after x265_free_encoder every instance opened is
\* closed once and the parameter handle is freed once, and not before; without
\* an x265_encode_image no instance exists or is closed.
C5_HandleLifecycle ==
  /\ Cardinality({i \in DOMAIN closeCount : closeCount[i] = 0}) <= 1
  /\ \A i \in DOMAIN closeCount : closeCount[i] <= 1
  /\ \A i \in DOMAIN closeCount :
       closeCount[i] = 0 => (phase = "live" /\ encoder = i)
  /\ phase = "freed" => \A i \in DOMAIN closeCount : closeCount[i] = 1
  /\ paramFrees = (IF phase = "freed" THEN 1 ELSE 0)
  /\ encodeCalls = 0 => closeCount = <<>>

\* two instances were opened and the object freed
C5_Witness ==
  /\ phase = "freed"
  /\ Len(closeCount) = 2
  /\ paramFrees = 1

\* C6: x265_get_compressed_data on an object that never saw x265_encode_image
\* returns data = null, size = 0 and heif_error_Ok, does not call the wrapped
\* encoder and leaves params, encoder, nals, num_nals and nal_output_counter alone.
C6_GetBeforeEncode ==
  [][(phase = "live" /\ encodeCalls = 0 /\ encodeCalls' = 0 /\ ended' # ended) =>
       /\ data' = NullPtr
       /\ size' = 0
       /\ err' = heif_error_Ok
       /\ libCalls' = libCalls
       /\ UNCHANGED <<params, encoder, nals, num_nals, nal_output_counter>>]_vars

\* data was asked of an object that never encoded
C6_Witness ==
  /\ encodeCalls = 0
  /\ ended > 0
  /\ data = NullPtr
  /\ size = 0

\* C7: x265_set_param_quality stores (100 - quality) / 2, rounded down, as the
\* constant rate factor: 50 for quality 0, 25 for 50, 0 for 100; in 0..50 for every
\* quality in 0..100; not larger than the factor of a smaller quality set before;
\* and it changes nothing else of the encoder state.
C7_QualityToCrf ==
  [][(phase = "live" /\ phase' = "live"
        /\ (quality' # quality \/ params'.rfConstant # params.rfConstant)) =>
       /\ quality' \in 0 .. 100 =>
            /\ params'.rfConstant \in 0 .. 50
            /\ (100 - quality') - 2 * params'.rfConstant \in {0, 1}
            /\ quality' = 0 => params'.rfConstant = 50
            /\ quality' = 50 => params'.rfConstant = 25
            /\ quality' = 100 => params'.rfConstant = 0
            /\ (quality \in 0 .. 100 /\ quality <= quality') =>
                 params'.rfConstant <= params.rfConstant
       /\ params' = [params EXCEPT !.rfConstant = params'.rfConstant]
       /\ UNCHANGED <<encoder, nals, num_nals, nal_output_counter>>]_vars

\* quality 99 was set on an object that holds an encoder instance and a batch
C7_Witness ==
  /\ quality = 99
  /\ params.rfConstant = 0
  /\ encoder # 0
  /\ num_nals > 0

\* C8: a pointer handed out refers to a NAL of a batch of the instance the object
\* holds, which is open; and an instance is closed only by x265_encode_image or
\* x265_free_encoder.
C8_BatchOwnerOpen ==
  /\ [](( phase = "live" /\ HandedOut) =>
          /\ encoder # 0
          /\ data.owner = encoder
          /\ nals.owner = encoder
          /\ closeCount[encoder] = 0)
  /\ [][closeCount' # closeCount =>
          (encodeCalls' = encodeCalls + 1 \/ phase' = "freed")]_vars

\* data of the second instance is handed out, the first being closed
C8_Witness ==
  /\ phase = "live"
  /\ HandedOut
  /\ data.owner = 2
  /\ closeCount[1] = 1

\* C9: for the NAL handed out, with k leading zero bytes, *data is payload + k + 1
\* and *size is sizeBytes - (k + 1); the size is >= 0 and no byte behind the
\* payload was read.
C9_StripInBounds ==
  (phase = "live" /\ HandedOut) =>
    LET p == nals.units[data.idx]
        k == LeadingZeros(p)
    IN /\ data.off = k + 1
       /\ size = Len(p) - (k + 1)
       /\ size >= 0
       /\ ~oobRead

====
